---- MODULE Spec2Model ----
(***************************************************************************)
(* tsds-biome: the format command.  One call of run(args, options,         *)
(* callback) of src/command.ts (the worker of the second source file has   *)
(* the same text): the platform guard, the dry-run and legacy flags,       *)
(* detectMode over <cwd>/biome.json, the construction of the bundled       *)
(* formatter's argument list, the spawn and the completion callback.       *)
(* The three reads of the file system (existsSync and readFileSync in      *)
(* detectMode, existsSync in run) are separate steps, so that a second     *)
(* specification, SpecEnv, can let the environment rewrite biome.json      *)
(* between them.                                                           *)
(***************************************************************************)
EXTENDS Integers, Sequences, FiniteSets, TLC

\* ------------------------------------------------------------------ bounds
\* longest argument list handed to run
MaxArgs == 2
\* longest "extends" array of a biome.json
MaxExtends == 2
\* how often the environment rewrites biome.json during one call (SpecEnv)
MaxWrites == 1

\* ------------------------------------------------------------- input values
\* The argument tokens: the three control flags, the option terminator, an
\* option the command does not know, and a positional argument.
Tokens == {"--dry-run", "-d", "--legacy", "--", "--fix", "src"}

SeqsUpTo(S, n) == UNION {[1..k -> S] : k \in 0..n}

ArgLists == SeqsUpTo(Tokens, MaxArgs)

\* options.cwd: not given, or the caller's project directory
Undefined == "undefined"
OptionsCwds == {Undefined, "/proj"}
\* process.cwd()
processCwd == "/home"

Platforms == {"win32", "linux"}
\* process.env.OSTYPE
OsTypes == {Undefined, "msys", "cygwin", "linux-gnu"}
Archs == {"x64", "arm64", "ia32"}

\* Entries of an "extends" array: two strings, one naming the shared
\* configuration package and one not, and a number (JSON allows any value).
Entries ==
  { [t |-> "string", v |-> "./tsds-config/biome.json"],
    [t |-> "string", v |-> "./base.json"],
    [t |-> "number", v |-> "5"] }

\* What <cwd>/biome.json holds: nothing (no file), text that is not JSON,
\* the JSON value null, or an object without or with an "extends" array.
Absent == [exists |-> FALSE, text |-> "", hasExtends |-> FALSE, extends |-> <<>>]
Invalid == [exists |-> TRUE, text |-> "invalid", hasExtends |-> FALSE, extends |-> <<>>]
JsonNull == [exists |-> TRUE, text |-> "null", hasExtends |-> FALSE, extends |-> <<>>]
NoExtendsField == [exists |-> TRUE, text |-> "object", hasExtends |-> FALSE, extends |-> <<>>]
WithExtends(es) == [exists |-> TRUE, text |-> "object", hasExtends |-> TRUE, extends |-> es]

Files ==
  {Absent, Invalid, JsonNull, NoExtendsField}
    \cup {WithExtends(es) : es \in SeqsUpTo(Entries, MaxExtends)}

\* ------------------------------------------------------ command.ts, globals
\* /^(msys|cygwin)$/.test(process.env.OSTYPE)
OsTypeMatches(ostype) == ostype \in {"msys", "cygwin"}

\* the guard's platform test without the OSTYPE alternative
isWindows_PlatformOnly(p, o) == p = "win32"

isWindows(platform, ostype) == platform = "win32" \/ OsTypeMatches(ostype)

\* ['x64', 'arm64'].indexOf(process.arch) < 0
ArchUnsupported(arch) == arch \notin {"x64", "arm64"}

\* --------------------------------------------------------------- getopts
\* getopts(args, { alias: { 'dry-run': 'd' }, boolean: ['dry-run', 'legacy'] }).
\* The lexical classes of the tokens, as getopts tests them on the characters:
\* arg[0] !== '-' (a positional), arg === '--' (the terminator: everything
\* after it is positional), arg[1] === '-' (a long option, its key the rest),
\* otherwise a cluster of short options.
IsPositional(a) == a \in {"src"}
IsTerminator(a) == a = "--"
IsLong(a) == a \in {"--dry-run", "--legacy", "--fix"}
LongKey(a) ==
  CASE a = "--dry-run" -> "dry-run"
    [] a = "--legacy" -> "legacy"
    [] a = "--fix" -> "fix"
    [] OTHER -> ""
ShortKey(a) == IF a = "-d" THEN "d" ELSE ""

\* the keys declared boolean, with their aliases
Bools == {"dry-run", "d", "legacy"}

\* the option table without the alias
Canonical_NoAlias(key) == key

\* the key an option is stored under, with the alias 'd' of 'dry-run'
Canonical(key) == IF key = "d" THEN "dry-run" ELSE key

NoOpts == [dryRun |-> FALSE, legacy |-> FALSE]

\* write(out, key, true): only the two options run reads are kept, each as
\* the truthiness of out[key] (a repeated option becomes an array of
\* trues, which is truthy as well).
WriteOpt(out, key) ==
  CASE Canonical(key) = "dry-run" -> [out EXCEPT !.dryRun = TRUE]
    [] Canonical(key) = "legacy" -> [out EXCEPT !.legacy = TRUE]
    [] OTHER -> out

\* An option that is not boolean takes the next argument as its value
\* unless that argument starts with '-' or there is none.
TakesNext(argv, i, key) ==
  /\ key \notin Bools
  /\ i + 1 <= Len(argv)
  /\ IsPositional(argv[i + 1])

RECURSIVE getoptsFrom(_, _, _)
getoptsFrom(argv, i, out) ==
  IF i > Len(argv) THEN out
  ELSE LET arg == argv[i] IN
    IF IsPositional(arg) THEN getoptsFrom(argv, i + 1, out)
    ELSE IF IsTerminator(arg) THEN out
    ELSE LET key == IF IsLong(arg) THEN LongKey(arg) ELSE ShortKey(arg) IN
      getoptsFrom(argv, IF TakesNext(argv, i, key) THEN i + 2 ELSE i + 1,
                  WriteOpt(out, key))

getopts(argv) == getoptsFrom(argv, 1, NoOpts)

\* ------------------------------------------------------------- detectMode
\* extendsArr[i].indexOf('tsds-config')
indexOf(s) == IF s = "./tsds-config/biome.json" THEN 2 ELSE 0 - 1

\* the loop passing over entries that are not strings
RECURSIVE scanExtends_SkipNonStrings(_, _)
scanExtends_SkipNonStrings(extendsArr, i) ==
  IF i > Len(extendsArr) THEN "none"
  ELSE IF extendsArr[i].t = "string" /\ indexOf(extendsArr[i].v) >= 0 THEN "bundled"
  ELSE scanExtends_SkipNonStrings(extendsArr, i + 1)

\* The loop of detectMode over extendsArr from index i (1-based here):
\* "bundled" on the first entry that holds the marker, "throw" on an entry
\* that has no indexOf (not a string), "none" when the loop ends.
RECURSIVE scanExtends(_, _)
scanExtends(extendsArr, i) ==
  IF i > Len(extendsArr) THEN "none"
  ELSE IF extendsArr[i].t # "string" THEN "throw"
  ELSE IF indexOf(extendsArr[i].v) >= 0 THEN "bundled"
  ELSE scanExtends(extendsArr, i + 1)

\* The try block of detectMode on what readFileSync finds: readFileSync
\* throws on a missing file, JSON.parse on text that is not JSON, and
\* reading .extends of null throws; biomeJson.extends || [] is the empty
\* array when the field is missing.
inspect(file) ==
  IF ~file.exists \/ file.text = "invalid" \/ file.text = "null" THEN "throw"
  ELSE scanExtends(IF file.hasExtends THEN file.extends ELSE <<>>, 1)

\* detectMode falling back to bundled where the try block throws
modeAfterTry_CatchBundled(f) == IF inspect(f) = "none" THEN "legacy" ELSE "bundled"

\* What detectMode returns after the try/catch.
modeAfterTry(file) == IF inspect(file) = "bundled" THEN "bundled" ELSE "legacy"

\* ------------------------------------------------------------------ state
VARIABLES
  args,        \* run's args
  optionsCwd,  \* options.cwd
  platform,    \* process.platform
  ostype,      \* process.env.OSTYPE
  arch,        \* process.arch
  file,        \* what <cwd>/biome.json holds now
  writes,      \* how often the environment has rewritten it
  pc,          \* where run is
  inspected,   \* what detectMode found when it looked at biome.json
  mode,        \* what detectMode returned
  biomeBin,    \* resolveBiomeBin()'s result
  defaultConfig, \* resolveDefaultConfig()'s result, "unasked" before the call
  spawnArgs,   \* the argument list under construction
  spawned,     \* the calls of spawn: command, args, options.cwd
  called,      \* the calls of callback: the error passed
  raised,      \* whether run threw
  printed      \* the console.log lines

vars ==
  <<args, optionsCwd, platform, ostype, arch, file, writes, pc, inspected, mode,
    biomeBin, defaultConfig, spawnArgs, spawned, called, raised, printed>>

inputs == <<args, optionsCwd, platform, ostype, arch>>

\* const cwd = options.cwd || process.cwd()
cwd == IF optionsCwd = Undefined THEN processCwd ELSE optionsCwd

opts == getopts(args)

BiomeBinPath == "node_modules/@biomejs/biome/bin/biome"
DefaultConfigPath == "node_modules/tsds-config/biome.json"

NotInspected == [exists |-> FALSE, text |-> "unread", hasExtends |-> FALSE, extends |-> <<>>]

Init ==
  /\ args \in ArgLists
  /\ optionsCwd \in OptionsCwds
  /\ platform \in Platforms
  /\ ostype \in OsTypes
  /\ arch \in Archs
  /\ file \in Files
  /\ writes = 0
  /\ pc = "call"
  /\ inspected = NotInspected
  /\ mode = "none"
  /\ biomeBin = "none"
  /\ defaultConfig = "unasked"
  /\ spawnArgs = <<>>
  /\ spawned = <<>>
  /\ called = <<>>
  /\ raised = FALSE
  /\ printed = <<>>

\* spawn(command, args, { ...options, cwd }, callback): the child runs and
\* the callback is the child's to call (ChildExit).
Spawn(command, argv) ==
  spawned' = Append(spawned, [command |-> command, args |-> argv, cwd |-> cwd])

\* the condition of the platform guard
GuardFires == isWindows(platform, ostype) /\ ArchUnsupported(arch)

\* ---------------------------------------------------------------- run
\* if (isWindows && unsupported arch) return callback();
PlatformGuard ==
  /\ pc = "call"
  /\ GuardFires
  /\ called' = Append(called, "none")
  /\ pc' = "done"
  /\ UNCHANGED <<inputs, file, writes, inspected, mode, biomeBin, defaultConfig,
                 spawnArgs, spawned, raised, printed>>

\* if (opts['dry-run']) { console.log(...); return callback(); }
DryRun ==
  /\ pc = "call"
  /\ ~GuardFires
  /\ opts.dryRun
  /\ printed' = Append(printed, "Dry-run: would format code with biome")
  /\ called' = Append(called, "none")
  /\ pc' = "done"
  /\ UNCHANGED <<inputs, file, writes, inspected, mode, biomeBin, defaultConfig,
                 spawnArgs, spawned, raised>>

\* if (opts.legacy) { console.log(...); spawn('npm', ['run', 'format'], ...); return; }
ExplicitLegacy ==
  /\ pc = "call"
  /\ ~GuardFires
  /\ ~opts.dryRun
  /\ opts.legacy
  /\ printed' = Append(printed, "Using legacy mode")
  /\ Spawn("npm", <<"run", "format">>)
  /\ pc' = "spawned"
  /\ UNCHANGED <<inputs, file, writes, inspected, mode, biomeBin, defaultConfig,
                 spawnArgs, called, raised>>

\* detectMode, up to its first return: if (!fs.existsSync(biomeJsonPath))
\* return 'bundled';
DetectExists ==
  /\ pc = "call"
  /\ ~GuardFires
  /\ ~opts.dryRun
  /\ ~opts.legacy
  /\ IF ~file.exists
       THEN /\ inspected' = Absent
            /\ mode' = "bundled"
            /\ pc' = "mode"
       ELSE /\ UNCHANGED <<inspected, mode>>
            /\ pc' = "read"
  /\ UNCHANGED <<inputs, file, writes, biomeBin, defaultConfig, spawnArgs,
                 spawned, called, raised, printed>>

\* detectMode, the try block and the final return 'legacy'
DetectRead ==
  /\ pc = "read"
  /\ inspected' = file
  /\ mode' = modeAfterTry(file)
  /\ pc' = "mode"
  /\ UNCHANGED <<inputs, file, writes, biomeBin, defaultConfig, spawnArgs,
                 spawned, called, raised, printed>>

\* if (mode === 'legacy') { console.log x 2; spawn('npm', ['run', 'format'], ...); return; }
AutoLegacy ==
  /\ pc = "mode"
  /\ mode = "legacy"
  /\ printed' = printed \o <<"Using legacy mode", "To migrate: extend tsds-config/biome.json">>
  /\ Spawn("npm", <<"run", "format">>)
  /\ pc' = "spawned"
  /\ UNCHANGED <<inputs, file, writes, inspected, mode, biomeBin, defaultConfig,
                 spawnArgs, called, raised>>

\* const biomeBin = resolveBiomeBin(): resolveBin returns the path or
\* throws, and nothing in run catches it.
resolveBiomeBin ==
  /\ pc = "mode"
  /\ mode # "legacy"
  /\ \E found \in BOOLEAN :
       IF found
         THEN /\ biomeBin' = BiomeBinPath
              /\ spawnArgs' = <<"check", "--write", "--unsafe">>
              /\ pc' = "probe"
              /\ UNCHANGED raised
         ELSE /\ raised' = TRUE
              /\ pc' = "threw"
              /\ UNCHANGED <<biomeBin, spawnArgs>>
  /\ UNCHANGED <<inputs, file, writes, inspected, mode, defaultConfig, spawned,
                 called, printed>>

\* resolveDefaultConfig(): require.resolve's path, or null when it throws
resolveDefaultConfig == {DefaultConfigPath, "null"}

\* the default configuration pushed without looking for a local biome.json
ProbeConfig_NoExistsCheck ==
  /\ pc = "probe"
  /\ \E resolved \in resolveDefaultConfig :
       /\ defaultConfig' = resolved
       /\ spawnArgs' = IF resolved # "null"
                         THEN spawnArgs \o <<"--config-path", resolved>>
                         ELSE spawnArgs
  /\ pc' = "build"
  /\ UNCHANGED <<inputs, file, writes, inspected, mode, biomeBin, spawned,
                 called, raised, printed>>

\* if (!fs.existsSync(biomeJsonPath)) { const defaultConfig =
\* resolveDefaultConfig(); if (defaultConfig) spawnArgs.push('--config-path',
\* defaultConfig); }
ProbeConfig ==
  /\ pc = "probe"
  /\ IF ~file.exists
       THEN \E resolved \in resolveDefaultConfig :
              /\ defaultConfig' = resolved
              /\ spawnArgs' = IF resolved # "null"
                                THEN spawnArgs \o <<"--config-path", resolved>>
                                ELSE spawnArgs
       ELSE UNCHANGED <<defaultConfig, spawnArgs>>
  /\ pc' = "build"
  /\ UNCHANGED <<inputs, file, writes, inspected, mode, biomeBin, spawned,
                 called, raised, printed>>

\* the filter without the short flag
Forwarded_WithoutShort(a) == a # "--legacy" /\ a # "--dry-run"

\* args[i] !== '--legacy' && args[i] !== '--dry-run' && args[i] !== '-d'
Forwarded(a) == a # "--legacy" /\ a # "--dry-run" /\ a # "-d"

\* for (let i = 0; i < args.length; i++) if (...) spawnArgs.push(args[i]);
RECURSIVE pushArgs(_, _, _)
pushArgs(out, argv, i) ==
  IF i > Len(argv) THEN out
  ELSE pushArgs(IF Forwarded(argv[i]) THEN Append(out, argv[i]) ELSE out, argv, i + 1)

\* the loop and spawn(biomeBin, spawnArgs, { ...options, cwd }, callback)
SpawnBundled ==
  /\ pc = "build"
  /\ spawnArgs' = pushArgs(spawnArgs, args, 1)
  /\ Spawn(biomeBin, spawnArgs')
  /\ pc' = "spawned"
  /\ UNCHANGED <<inputs, file, writes, inspected, mode, biomeBin, defaultConfig,
                 called, raised, printed>>

run ==
  \/ PlatformGuard
  \/ DryRun
  \/ ExplicitLegacy
  \/ DetectExists
  \/ DetectRead
  \/ AutoLegacy
  \/ resolveBiomeBin
  \/ ProbeConfig
  \/ SpawnBundled

\* The spawned process ends and spawn calls the callback, once, with the
\* child's error or without one.
ChildExit ==
  /\ pc = "spawned"
  /\ \E err \in {"none", "child failed"} : called' = Append(called, err)
  /\ pc' = "done"
  /\ UNCHANGED <<inputs, file, writes, inspected, mode, biomeBin, defaultConfig,
                 spawnArgs, spawned, raised, printed>>

\* The environment creates, removes or rewrites <cwd>/biome.json while run
\* is between its reads of it.
EnvWrite ==
  /\ pc \in {"read", "mode", "probe"}
  /\ writes < MaxWrites
  /\ \E f \in Files \ {file} : file' = f
  /\ writes' = writes + 1
  /\ UNCHANGED <<inputs, pc, inspected, mode, biomeBin, defaultConfig, spawnArgs,
                 spawned, called, raised, printed>>

Next == run \/ ChildExit

Spec == Init /\ [][Next]_vars

NextEnv == Next \/ EnvWrite

SpecEnv == Init /\ [][NextEnv]_vars

\* run has returned or thrown and no child is left running
Terminated == pc \in {"done", "threw"}

\* ------------------------------------------------------------ the claims
NpmRunFormat == [command |-> "npm", args |-> <<"run", "format">>, cwd |-> cwd]

BaseArgs == <<"check", "--write", "--unsafe">>

IsBundledSpawn(s) == s.command = BiomeBinPath

Has(seq, x) == \E i \in 1..Len(seq) : seq[i] = x

Count(seq, x) == Cardinality({i \in 1..Len(seq) : seq[i] = x})

\* C1: on every branch and for every outcome of the collaborators the
\* completion callback is invoked exactly once, never twice, and run never
\* throws: once run has returned and no child is running, the callback has
\* been called once.
C1_CallbackExactlyOnce ==
  /\ ~raised
  /\ Len(called) <= 1
  /\ Terminated => Len(called) = 1

\* C2: the action taken is that of the first matching condition: the
\* platform guard and the dry-run flag spawn nothing, the legacy flag spawns
\* npm run format without consulting detectMode, mode legacy spawns npm run
\* format, and otherwise the bundled formatter is spawned.
C2_DecisionOrder ==
  Terminated =>
    IF GuardFires THEN spawned = <<>> /\ printed = <<>>
    ELSE IF opts.dryRun THEN spawned = <<>> /\ Len(printed) = 1
    ELSE IF opts.legacy THEN spawned = <<NpmRunFormat>> /\ mode = "none"
    ELSE IF mode = "legacy" THEN spawned = <<NpmRunFormat>>
    ELSE Len(spawned) = 1 /\ IsBundledSpawn(spawned[1])

\* the argument list holds the dry-run flag at some position
HasDryRunToken == Has(args, "--dry-run") \/ Has(args, "-d")

\* the argument list holds it before any "--" terminator
DryRunBeforeTerminator ==
  \E i \in 1..Len(args) :
    /\ args[i] \in {"--dry-run", "-d"}
    /\ \A j \in 1..(i - 1) : args[j] # "--"

\* once run has acted, it has completed at once: no spawn, detectMode not
\* consulted, the callback called without an error
CompletedAtOnce ==
  /\ spawned = <<>>
  /\ pc # "call" => pc = "done" /\ called = <<"none">> /\ mode = "none"

\* C3, as stated: an argument list holding '--dry-run' or '-d' at any
\* position never leads to a spawn.
C3_DryRunTokenNeverSpawns == HasDryRunToken => spawned = <<>>

\* C3, amended: an argument list holding '--dry-run' or '-d' before any '--'
\* terminator never leads to a spawn and completes at once.
C3_DryRunOptionNeverSpawns == DryRunBeforeTerminator => CompletedAtOnce

C3_Witness ==
  /\ args = <<"src", "-d">>
  /\ platform = "linux"
  /\ ostype = Undefined
  /\ file = Invalid
  /\ pc = "done"

\* the caller's arguments without the three control flags
IsControl(a) == a \in {"--legacy", "--dry-run", "-d"}
NotControl(a) == ~IsControl(a)

\* C4: every spawn of the bundled formatter gets the fixed prefix,
\* optionally '--config-path' and a path, then the caller's arguments
\* without '--legacy', '--dry-run' and '-d': none of the three appears, every
\* other argument appears as often as the caller gave it, in the caller's
\* order.
C4_ForwardedArgs ==
  \A k \in 1..Len(spawned) :
    IsBundledSpawn(spawned[k]) =>
      \E prefix \in {BaseArgs, BaseArgs \o <<"--config-path", DefaultConfigPath>>} :
        LET sent == spawned[k].args
            rest == SubSeq(sent, Len(prefix) + 1, Len(sent))
        IN /\ Len(sent) >= Len(prefix)
           /\ SubSeq(sent, 1, Len(prefix)) = prefix
           /\ \A a \in {"--legacy", "--dry-run", "-d"} : ~Has(rest, a)
           /\ \A a \in Tokens : ~IsControl(a) => Count(rest, a) = Count(args, a)
           /\ rest = SelectSeq(args, NotControl)

C4_Witness ==
  /\ pc = "done"
  /\ Len(spawned) = 1
  /\ IsBundledSpawn(spawned[1])
  /\ args = <<"--", "-d">>
  /\ spawned[1].args = <<"check", "--write", "--unsafe", "--">>

\* an entry of extends that is a string containing the marker
HasMarker(e) == e.t = "string" /\ e.v = "./tsds-config/biome.json"

IsObject(f) == f.exists /\ f.text = "object"

\* C5, as stated: detectMode returns bundled exactly when biome.json is
\* absent, or parses and its extends list has an entry containing the marker.
C5_BundledIffMarker ==
  pc = "mode" =>
    (mode = "bundled" <=>
       \/ ~file.exists
       \/ IsObject(file) /\ \E i \in 1..Len(file.extends) : HasMarker(file.extends[i]))

\* C5, amended: detectMode returns bundled exactly when biome.json is
\* absent, or parses to an object whose extends list has an entry containing
\* the marker with only strings before it; otherwise legacy.
C5_BundledIffMarkerReached ==
  pc = "mode" =>
    /\ mode \in {"bundled", "legacy"}
    /\ mode = "bundled" <=>
         \/ ~file.exists
         \/ /\ IsObject(file)
            /\ \E i \in 1..Len(file.extends) :
                 /\ HasMarker(file.extends[i])
                 /\ \A j \in 1..(i - 1) : file.extends[j].t = "string"

C5_Witness ==
  /\ pc = "mode"
  /\ IsObject(file)
  /\ Len(file.extends) = 2
  /\ file.extends[1].t = "number"
  /\ HasMarker(file.extends[2])
  /\ mode = "legacy"

\* what detectMode read cannot be inspected: not JSON, null, or an extends
\* list that starts with an entry that is no string
InspectionFails(f) ==
  /\ f.exists
  /\ \/ f.text \in {"invalid", "null"}
     \/ f.text = "object" /\ Len(f.extends) > 0 /\ f.extends[1].t # "string"

\* C6: when biome.json exists but does not parse (or inspecting extends
\* fails), detectMode returns legacy, run does not throw and passes no error
\* of its own to the callback, and spawns npm run format in the caller's
\* working directory.
C6_ParseFailureIsLegacy ==
  InspectionFails(inspected) =>
    /\ mode = "legacy"
    /\ ~raised
    /\ pc \in {"mode", "spawned", "done"}
    /\ pc = "mode" => spawned = <<>> /\ called = <<>>
    /\ pc # "mode" =>
         spawned = <<[command |-> "npm", args |-> <<"run", "format">>,
                      cwd |-> IF optionsCwd = "/proj" THEN "/proj" ELSE "/home"]>>
    /\ pc = "spawned" => called = <<>>
    /\ pc = "done" => Len(called) = 1

C6_Witness ==
  /\ inspected = Invalid
  /\ optionsCwd = "/proj"
  /\ pc = "done"
  /\ called = <<"none">>

\* C7: in the bundled branch '--config-path' and the resolved path are
\* appended exactly when no local biome.json is present and the default
\* configuration resolves; with a local biome.json the flag is never
\* appended, and when resolution fails the formatter is spawned with the
\* base arguments and no flag.
C7_ConfigPath ==
  pc \in {"build", "spawned", "done"} /\ biomeBin # "none" =>
    /\ ~raised
    /\ Has(spawnArgs, "--config-path") <=> ~file.exists /\ defaultConfig = DefaultConfigPath
    /\ Has(spawnArgs, "--config-path") =>
         SubSeq(spawnArgs, 1, 5) = BaseArgs \o <<"--config-path", DefaultConfigPath>>
    /\ file.exists => defaultConfig = "unasked"
    /\ ~file.exists => defaultConfig \in {DefaultConfigPath, "null"}
    /\ pc # "build" =>
         /\ Len(spawned) = 1
         /\ IsBundledSpawn(spawned[1])
         /\ spawned[1].args = spawnArgs
         /\ defaultConfig # DefaultConfigPath =>
              spawnArgs = BaseArgs \o SelectSeq(args, NotControl)

C7_Witness ==
  /\ pc = "done"
  /\ ~file.exists
  /\ defaultConfig = "null"
  /\ Len(spawned) = 1
  /\ spawned[1].args = <<"check", "--write", "--unsafe", "--fix">>

\* C8: on win32, or with OSTYPE msys or cygwin, and an architecture that is
\* neither x64 nor arm64, run never spawns and calls the callback at once
\* without an error; on every other platform the guard does not fire.
UnsupportedWindows ==
  /\ platform = "win32" \/ ostype = "msys" \/ ostype = "cygwin"
  /\ arch # "x64" /\ arch # "arm64"

\* run ended the way only the guard ends it: nothing printed, nothing spawned
EndedByGuard == pc = "done" /\ spawned = <<>> /\ printed = <<>>

C8_PlatformGuard ==
  /\ UnsupportedWindows => CompletedAtOnce /\ printed = <<>>
  /\ ~UnsupportedWindows => ~EndedByGuard

C8_Witness ==
  /\ platform = "linux"
  /\ ostype = "cygwin"
  /\ arch = "ia32"
  /\ args = <<"--legacy">>
  /\ pc = "done"

\* C10: the two probes of biome.json agree in effect whatever the
\* environment does between them: a bundled spawn without '--config-path'
\* that is not due to a failed resolution means detectMode inspected a
\* biome.json holding the marker, and a spawn with '--config-path' means
\* detectMode found the file absent.
C10_ProbesAgree ==
  \A k \in 1..Len(spawned) :
    IsBundledSpawn(spawned[k]) =>
      /\ ~Has(spawned[k].args, "--config-path") /\ defaultConfig # "null" =>
           /\ inspected.exists
           /\ \E i \in 1..Len(inspected.extends) : HasMarker(inspected.extends[i])
      /\ Has(spawned[k].args, "--config-path") => inspected = Absent

====
